---- MODULE Spec2Model ----
(***************************************************************************)
(* findSupportLevels, aggregating revision                                 *)
(* (src/supportFunction.v1.js, lines 135-359).                             *)
(*                                                                         *)
(* Representation.                                                         *)
(*  - A price lp is an integer number of units of 1/Scale (a dyadic        *)
(*    rational, so it is a double without rounding error and differences   *)
(*    of prices are exact).  Every test of the source is a comparison of a *)
(*    ratio of such values with a percentage; it is evaluated exactly by   *)
(*    RelLE / RelLT / RelGE.                                               *)
(*  - A zone string (the result of toFixed(2)) is represented by the       *)
(*    integer number of cents it denotes: "100.00" is 10000.  parseFloat   *)
(*    of the string is that number of cents, so the comparisons of the     *)
(*    source on parseFloat(zone) are comparisons of cents.                 *)
(*  - Indices are 1-based: source index c is index c + 1 here.             *)
(***************************************************************************)
EXTENDS Integers, Sequences, FiniteSets, TLC

VARIABLES
    priceData,                  \* the input series: priceData[n] is the lp of observation n
    pc,                         \* "scan", "aggregate", "highlight", "done"
    i,                          \* main loop index
    supportZones,               \* raw support records, in emission order
    resistanceZones,            \* raw resistance records, in emission order
    checkedSupports,            \* raw prices of the accepted supports
    checkedResistances,         \* raw prices of the accepted resistances
    scannedSupport,             \* the last iteration entered the support branch
    bounceCount,                \* local bounceCount of the last iteration
    scannedResistance,          \* the last iteration entered the resistance branch
    dropCount,                  \* local dropCount of the last iteration
    supportBases,               \* history: base index of each raw support record
    resistanceBases,            \* history: base index of each raw resistance record
    aggregatedSupportZones,
    aggregatedResistanceZones,
    highlightedZones

vars == <<priceData, pc, i, supportZones, resistanceZones, checkedSupports,
          checkedResistances, scannedSupport, bounceCount, scannedResistance,
          dropCount, supportBases, resistanceBases, aggregatedSupportZones,
          aggregatedResistanceZones, highlightedZones>>

-----------------------------------------------------------------------------
(* Program constants *)

Scale == 2 ^ 10
TrendRange == 10
TrendStepPct == 1
TrendTolPct == 3
MinTrendCount == 3
TouchTolPct == 5
DedupTolPct == 5
BouncePct == 10
MinConfirmations == 3
AncientPct == 50
OverlapTolPct == 5

(* Bounds of the model *)

MaxLen == 9
MaxRuns == 4
MaxLenOverlap == 9
MaxRunsOverlap == 4
MaxLenCents == 8
MaxRunsCents == 5
MaxLenAncient == 6
MaxLenTouch == 8

-----------------------------------------------------------------------------
(* Arithmetic *)

Abs(x) == IF x < 0 THEN -x ELSE x

\* num / den <= pct / 100, for den > 0
RelLE(num, den, pct) == num <= (pct * den) \div 100

\* num / den < pct / 100, for den > 0
RelLT(num, den, pct) == num <= (pct * den - 1) \div 100

\* num / den >= pct / 100, for den > 0
RelGE(num, den, pct) == ~RelLT(num, den, pct)

\* Number.prototype.toFixed(2): the nearest number of cents, a tie going up
toFixed(x) == (100 * x + Scale \div 2) \div Scale

N == Len(priceData)

-----------------------------------------------------------------------------
(* trendLineMatch *)

\* 100 * expected, k steps after the base
expected100(baseIndex, k, type) ==
    IF type = "support"
    THEN priceData[baseIndex] * (100 - TrendStepPct * k)
    ELSE priceData[baseIndex] * (100 + TrendStepPct * k)

onTrend(baseIndex, idx, type) ==
    LET e == expected100(baseIndex, idx - baseIndex, type)
    IN  RelLE(Abs(100 * priceData[idx] - e), e, TrendTolPct)

RECURSIVE trendCount(_, _, _, _)
trendCount(baseIndex, range, type, idx) ==
    IF idx < baseIndex + range /\ idx <= N
    THEN (IF onTrend(baseIndex, idx, type) THEN 1 ELSE 0)
         + trendCount(baseIndex, range, type, idx + 1)
    ELSE 0

trendLineMatchLoose(baseIndex, range, type) ==
    trendCount(baseIndex, range, type, baseIndex + 1) >= MinTrendCount - 1

trendLineMatch(baseIndex, range, type) ==
    trendCount(baseIndex, range, type, baseIndex + 1) >= MinTrendCount

-----------------------------------------------------------------------------
(* actedAsResistanceBefore *)

RECURSIVE droppedAfter(_, _, _)
droppedAfter(prev, j, index) ==
    IF j >= index THEN FALSE
    ELSE IF RelGE(priceData[prev] - priceData[j], priceData[prev], BouncePct)
         THEN TRUE
         ELSE droppedAfter(prev, j + 1, index)

RECURSIVE actedScan(_, _, _)
actedScan(prev, index, price) ==
    IF prev >= index THEN FALSE
    ELSE IF /\ RelLE(Abs(priceData[prev] - price), price, TouchTolPct)
            /\ droppedAfter(prev, prev + 1, index)
         THEN TRUE
         ELSE actedScan(prev + 1, index, price)

actedAsResistanceBefore(index, price) == actedScan(1, index, price)

-----------------------------------------------------------------------------
(* Main loop: the bounce scan and the drop scan of one base index *)

nearLevel(j, basePrice) ==
    RelLE(Abs(priceData[j] - basePrice), basePrice, TouchTolPct)

RECURSIVE firstBounceNoBreak(_, _, _)
firstBounceNoBreak(base, j, k) ==
    IF k > N THEN 0
    ELSE (IF /\ RelGE(priceData[k] - priceData[j], priceData[j], BouncePct)
             /\ trendLineMatch(base, TrendRange, "support")
          THEN 1 ELSE 0)
         + firstBounceNoBreak(base, j, k + 1)

\* the k loop after touch j: what the touch adds to bounceCount
RECURSIVE firstBounce(_, _, _)
firstBounce(base, j, k) ==
    IF k > N THEN 0
    ELSE IF RelGE(priceData[k] - priceData[j], priceData[j], BouncePct)
         THEN (IF trendLineMatch(base, TrendRange, "support") THEN 1 ELSE 0)
         ELSE firstBounce(base, j, k + 1)

\* the j loop
RECURSIVE countBounces(_, _)
countBounces(base, j) ==
    IF j > N THEN 0
    ELSE (IF nearLevel(j, priceData[base]) THEN firstBounce(base, j, j + 1) ELSE 0)
         + countBounces(base, j + 1)

RECURSIVE firstDrop(_, _, _)
firstDrop(base, j, k) ==
    IF k > N THEN 0
    ELSE IF RelGE(priceData[j] - priceData[k], priceData[j], BouncePct)
         THEN (IF trendLineMatch(base, TrendRange, "resistance") THEN 1 ELSE 0)
         ELSE firstDrop(base, j, k + 1)

RECURSIVE countDrops(_, _)
countDrops(base, j) ==
    IF j > N THEN 0
    ELSE (IF nearLevel(j, priceData[base]) THEN firstDrop(base, j, j + 1) ELSE 0)
         + countDrops(base, j + 1)

bounceScanFromBase(base) == countBounces(base, base)

\* the value of bounceCount after the j loop of base index base
bounceScan(base) == countBounces(base, base + 1)

\* the value of dropCount after the j loop of base index base
dropScan(base) == countDrops(base, base + 1)

latestPrice == priceData[N]

ancientNever(basePrice) == FALSE

\* basePrice < minValidPrice, with minValidPrice = latestPrice * 0.5
ancient(basePrice) == 100 * basePrice < AncientPct * latestPrice

closeToCheckedInclusive(checked, basePrice) ==
    \E p \in checked : RelLE(Abs(p - basePrice), basePrice, DedupTolPct)

\* Array.from(checked).some((p) => Math.abs(p - basePrice) / basePrice < 0.05)
closeToChecked(checked, basePrice) ==
    \E p \in checked : RelLT(Abs(p - basePrice), basePrice, DedupTolPct)

confirmedLax(count) == count >= MinConfirmations - 1

\* bounceCount >= 3, dropCount >= 3
confirmed(count) == count >= MinConfirmations

-----------------------------------------------------------------------------
(* Aggregation and sorting *)

keyPositions(zs, z) == {n \in 1..Len(zs) : zs[n].zone = z}

mergeSupportFirstFlag(acc, s) ==
    LET pos == keyPositions(acc, s.zone)
    IN  IF pos = {} THEN Append(acc, s)
        ELSE LET n == CHOOSE n \in pos : TRUE
             IN  [acc EXCEPT ![n].bounceCount = @ + s.bounceCount]

\* one iteration of the loop over supportZones (aggregatedSupportMap)
mergeSupport(acc, s) ==
    LET pos == keyPositions(acc, s.zone)
    IN  IF pos = {} THEN Append(acc, s)
        ELSE LET n == CHOOSE n \in pos : TRUE
             IN  [acc EXCEPT ![n].bounceCount = @ + s.bounceCount,
                             ![n].confirmedResistance = @ \/ s.confirmedResistance]

\* one iteration of the loop over resistanceZones (aggregatedResistanceMap)
mergeResistance(acc, r) ==
    LET pos == keyPositions(acc, r.zone)
    IN  IF pos = {} THEN Append(acc, r)
        ELSE LET n == CHOOSE n \in pos : TRUE
             IN  [acc EXCEPT ![n].dropCount = @ + r.dropCount]

RECURSIVE aggregateSupports(_, _)
aggregateSupports(acc, zs) ==
    IF zs = <<>> THEN acc
    ELSE aggregateSupports(mergeSupport(acc, Head(zs)), Tail(zs))

RECURSIVE aggregateResistances(_, _)
aggregateResistances(acc, zs) ==
    IF zs = <<>> THEN acc
    ELSE aggregateResistances(mergeResistance(acc, Head(zs)), Tail(zs))

RECURSIVE insertByZone(_, _)
insertByZone(sorted, r) ==
    IF sorted = <<>> THEN <<r>>
    ELSE IF r.zone < Head(sorted).zone THEN <<r>> \o sorted
         ELSE <<Head(sorted)>> \o insertByZone(Tail(sorted), r)

RECURSIVE insertionSort(_)
insertionSort(zs) ==
    IF zs = <<>> THEN <<>>
    ELSE insertByZone(insertionSort(SubSeq(zs, 1, Len(zs) - 1)), zs[Len(zs)])

unsorted(zs) == zs

\* .sort((a, b) => parseFloat(a.zone) - parseFloat(b.zone))
sortByZone(zs) == insertionSort(zs)

-----------------------------------------------------------------------------
(* Highlighted zones *)

overlapsByResistance(support, resistance) ==
    /\ resistance.zone # 0
    /\ RelLE(Abs(support.zone - resistance.zone), resistance.zone, OverlapTolPct)

\* priceDiff / parseFloat(support.zone) <= 0.05; a division by zero gives
\* Infinity or NaN, and the test is false
overlaps(support, resistance) ==
    /\ support.zone # 0
    /\ RelLE(Abs(support.zone - resistance.zone), support.zone, OverlapTolPct)

newHighlight(support) ==
    [zone |-> support.zone, supportBounceCount |-> 0, resistanceDropCount |-> 0,
     type |-> "support-resistance overlap"]

accumulateOnce(temp, support, resistance) ==
    LET pos == keyPositions(temp, support.zone)
    IN  IF pos = {}
        THEN Append(temp, [newHighlight(support) EXCEPT
                              !.supportBounceCount = support.bounceCount,
                              !.resistanceDropCount = resistance.dropCount])
        ELSE LET n == CHOOSE n \in pos : TRUE
             IN  [temp EXCEPT ![n].resistanceDropCount = @ + resistance.dropCount]

\* the body of the if of the inner loop (tempHighlights)
accumulate(temp, support, resistance) ==
    LET pos  == keyPositions(temp, support.zone)
        made == IF pos = {} THEN Append(temp, newHighlight(support)) ELSE temp
        n    == CHOOSE n \in keyPositions(made, support.zone) : TRUE
    IN  [made EXCEPT ![n].supportBounceCount = @ + support.bounceCount,
                     ![n].resistanceDropCount = @ + resistance.dropCount]

RECURSIVE overResistances(_, _, _)
overResistances(temp, support, rs) ==
    IF rs = <<>> THEN temp
    ELSE overResistances(
             IF overlaps(support, Head(rs)) THEN accumulate(temp, support, Head(rs))
             ELSE temp,
             support, Tail(rs))

RECURSIVE overSupports(_, _, _)
overSupports(temp, ss, rs) ==
    IF ss = <<>> THEN temp
    ELSE overSupports(overResistances(temp, Head(ss), rs), Tail(ss), rs)

-----------------------------------------------------------------------------
(* Inputs *)

SeriesOver(prices, maxLen) == UNION {[1..m -> prices] : m \in 1..maxLen}

Runs(s) == 1 + Cardinality({n \in 1..(Len(s) - 1) : s[n] # s[n + 1]})

\* the series of exactly len observations that consist of at most maxRuns
\* plateaus (runs of one price)
RECURSIVE PlateausOfLen(_, _, _)
PlateausOfLen(prices, maxRuns, len) ==
    IF len = 1 THEN {<<p>> : p \in prices}
    ELSE {t \in {Append(s, p) : s \in PlateausOfLen(prices, maxRuns, len - 1),
                                p \in prices} : Runs(t) <= maxRuns}

Plateaus(prices, maxRuns, maxLen) ==
    UNION {PlateausOfLen(prices, maxRuns, m) : m \in 1..maxLen}

\* whole prices 90.00, 100.00, 105.00, 110.00
Prices == {90 * Scale, 100 * Scale, 105 * Scale, 110 * Scale}

\* whole prices 90.00, 95.00, 100.00, 105.00
OverlapPrices == {90 * Scale, 95 * Scale, 100 * Scale, 105 * Scale}

\* prices of about a tenth: 94/1024 .. 110/1024, so that the different prices
\* 100/1024 and 105/1024 have the same two-decimal string, "0.10"
CentPrices == {94, 100, 105, 110}

\* 94.00, 97.00, 100.0625 (whose string is "100.06") and its double 200.125
AncientPrices == {94 * Scale, 97 * Scale, 100 * Scale + 64, 200 * Scale + 128}

\* 97.00, 100.00, 110.00
TouchPrices == {97 * Scale, 100 * Scale, 110 * Scale}

InitWith(series) ==
    /\ priceData \in series
    /\ pc = "scan"
    /\ i = 1
    /\ supportZones = <<>>
    /\ resistanceZones = <<>>
    /\ checkedSupports = {}
    /\ checkedResistances = {}
    /\ scannedSupport = FALSE
    /\ bounceCount = 0
    /\ scannedResistance = FALSE
    /\ dropCount = 0
    /\ supportBases = <<>>
    /\ resistanceBases = <<>>
    /\ aggregatedSupportZones = <<>>
    /\ aggregatedResistanceZones = <<>>
    /\ highlightedZones = <<>>

Init == InitWith(Plateaus(Prices, MaxRuns, MaxLen))

InitOverlap == InitWith(Plateaus(OverlapPrices, MaxRunsOverlap, MaxLenOverlap))

InitCents == InitWith(Plateaus(CentPrices, MaxRunsCents, MaxLenCents))

InitAncient == InitWith(SeriesOver(AncientPrices, MaxLenAncient))

InitTouch == InitWith(SeriesOver(TouchPrices, MaxLenTouch))

-----------------------------------------------------------------------------
(* Actions *)

\* one iteration of the main loop; bc, dc, sEmit and rEmit are bound once
ScanStep ==
    /\ pc = "scan"
    /\ LET basePrice == priceData[i]
           live      == ~ancient(basePrice)
           sOpen     == live /\ ~closeToChecked(checkedSupports, basePrice)
           rOpen     == live /\ ~closeToChecked(checkedResistances, basePrice)
       IN  \E bc \in {IF sOpen THEN bounceScan(i) ELSE 0},
              dc \in {IF rOpen THEN dropScan(i) ELSE 0} :
           \E sEmit \in {sOpen /\ confirmed(bc)},
              rEmit \in {rOpen /\ confirmed(dc)} :
              /\ scannedSupport' = sOpen
              /\ bounceCount' = bc
              /\ supportZones' =
                    IF sEmit
                    THEN Append(supportZones,
                                [zone |-> toFixed(basePrice), bounceCount |-> bc,
                                 confirmedResistance |->
                                     actedAsResistanceBefore(i, basePrice)])
                    ELSE supportZones
              /\ checkedSupports' =
                    IF sEmit THEN checkedSupports \cup {basePrice}
                    ELSE checkedSupports
              /\ supportBases' =
                    IF sEmit THEN Append(supportBases, i) ELSE supportBases
              /\ scannedResistance' = rOpen
              /\ dropCount' = dc
              /\ resistanceZones' =
                    IF rEmit
                    THEN Append(resistanceZones,
                                [zone |-> toFixed(basePrice), dropCount |-> dc])
                    ELSE resistanceZones
              /\ checkedResistances' =
                    IF rEmit THEN checkedResistances \cup {basePrice}
                    ELSE checkedResistances
              /\ resistanceBases' =
                    IF rEmit THEN Append(resistanceBases, i) ELSE resistanceBases
    /\ i' = i + 1
    /\ pc' = IF i = N THEN "aggregate" ELSE "scan"
    /\ UNCHANGED <<priceData, aggregatedSupportZones, aggregatedResistanceZones,
                   highlightedZones>>

Aggregate ==
    /\ pc = "aggregate"
    /\ aggregatedSupportZones' = sortByZone(aggregateSupports(<<>>, supportZones))
    /\ aggregatedResistanceZones' =
          sortByZone(aggregateResistances(<<>>, resistanceZones))
    /\ pc' = "highlight"
    /\ UNCHANGED <<priceData, i, supportZones, resistanceZones, checkedSupports,
                   checkedResistances, scannedSupport, bounceCount,
                   scannedResistance, dropCount, supportBases, resistanceBases,
                   highlightedZones>>

Highlight ==
    /\ pc = "highlight"
    /\ highlightedZones' =
          sortByZone(overSupports(<<>>, aggregatedSupportZones,
                                  aggregatedResistanceZones))
    /\ pc' = "done"
    /\ UNCHANGED <<priceData, i, supportZones, resistanceZones, checkedSupports,
                   checkedResistances, scannedSupport, bounceCount,
                   scannedResistance, dropCount, supportBases, resistanceBases,
                   aggregatedSupportZones, aggregatedResistanceZones>>

Next == ScanStep \/ Aggregate \/ Highlight

Spec == Init /\ [][Next]_vars

SpecOverlap == InitOverlap /\ [][Next]_vars

SpecCents == InitCents /\ [][Next]_vars

SpecAncient == InitAncient /\ [][Next]_vars

SpecTouch == InitTouch /\ [][Next]_vars

-----------------------------------------------------------------------------
(* Properties *)

Returned == pc = "done"

Range(seq) == {seq[n] : n \in 1..Len(seq)}

RECURSIVE SumDrops(_, _)
SumDrops(zs, positions) ==
    IF positions = {} THEN 0
    ELSE LET n == CHOOSE n \in positions : TRUE
         IN  zs[n].dropCount + SumDrops(zs, positions \ {n})

\* the positions of the aggregated resistance zones R with
\* abs(S - R) / S <= 0.05, for the zone value S (in cents)
Matching(S) ==
    {n \in 1..Len(aggregatedResistanceZones) :
        /\ S > 0
        /\ 100 * Abs(S - aggregatedResistanceZones[n].zone) <= 5 * S}

\* C1, as stated: in the result, the overlap record of a support price S has
\* supportBounceCount equal to the bounceCount of the aggregated support zone
\* S, also when several resistance zones match S, and resistanceDropCount
\* equal to the sum of dropCount over the matching resistance zones.
C1_AsStated ==
    Returned =>
        \A h \in Range(highlightedZones) :
            \E s \in Range(aggregatedSupportZones) :
                /\ s.zone = h.zone
                /\ h.supportBounceCount = s.bounceCount
                /\ h.resistanceDropCount =
                       SumDrops(aggregatedResistanceZones, Matching(s.zone))

\* C1, amended: supportBounceCount is the bounceCount of the aggregated
\* support zone S once for every aggregated resistance zone that matches S
\* (bounceCount times the number of matching zones); resistanceDropCount is
\* the sum of dropCount over the matching resistance zones.
C1_Amended ==
    Returned =>
        \A h \in Range(highlightedZones) :
            \E s \in Range(aggregatedSupportZones) :
                /\ s.zone = h.zone
                /\ h.supportBounceCount =
                       s.bounceCount * Cardinality(Matching(s.zone))
                /\ h.resistanceDropCount =
                       SumDrops(aggregatedResistanceZones, Matching(s.zone))

\* an overlap record whose support price is matched by two resistance zones
C1_Witness ==
    /\ Returned
    /\ \E h \in Range(highlightedZones) : Cardinality(Matching(h.zone)) >= 2

\* the base indices whose zones have been emitted so far
EmittedBases == Range(supportBases) \cup Range(resistanceBases)

\* C2, as stated: trendLineMatch(baseIndex, 10, type) is false, for both
\* types, whenever fewer than 4 observations follow baseIndex, and no zone is
\* emitted for such a base index.
C2_AsStated ==
    /\ \A b \in 1..N :
          N - b < 4 =>
              /\ ~trendLineMatch(b, TrendRange, "support")
              /\ ~trendLineMatch(b, TrendRange, "resistance")
    /\ \A b \in EmittedBases : N - b >= 4

\* C2, amended: trendLineMatch(baseIndex, 10, type) is false, for both types,
\* whenever fewer than 3 observations follow baseIndex (with exactly 3 it can
\* be true); the counters of a base index that fewer than 4 observations
\* follow end at 0, and no zone is emitted for such a base index.
C2_Amended ==
    /\ \A b \in 1..N :
          N - b < 3 =>
              /\ ~trendLineMatch(b, TrendRange, "support")
              /\ ~trendLineMatch(b, TrendRange, "resistance")
    /\ (i > 1 /\ N - (i - 1) < 4) => (bounceCount = 0 /\ dropCount = 0)
    /\ \A b \in EmittedBases : N - b >= 4

\* the main loop has passed a base index that exactly 3 observations follow,
\* the trend line matches there, and a zone has been emitted for another base
C2_Witness ==
    /\ N >= 4
    /\ i > N - 3
    /\ trendLineMatch(N - 3, TrendRange, "resistance")
    /\ EmittedBases # {}

P100 == 100 * Scale

P110 == 110 * Scale

\* the observations at the price 100.0
Touches100 == {t \in 1..N : priceData[t] = P100}

FirstTouch100 == CHOOSE t \in Touches100 : \A u \in Touches100 : t <= u

\* the record {zone: "100.00", bounceCount: 3, confirmedResistance: false}
\* is among the returned support zones
Support100x3 ==
    \E s \in Range(aggregatedSupportZones) :
        s = [zone |-> 10000, bounceCount |-> 3, confirmedResistance |-> FALSE]

\* C3, as stated: if the price 100.0 is touched three times, each touch is
\* followed by a rise to at least 110.0, at least 4 points after each touch
\* follow the 1%-per-step declining line within 3%, and no observation before
\* the first touch behaved as resistance at that price, the result holds a
\* support zone "100.00" with bounceCount 3 and confirmedResistance false.
C3_AsStated ==
    ( /\ Returned
      /\ Cardinality(Touches100) = 3
      /\ \A t \in Touches100 :
            /\ \E k \in (t + 1)..N : priceData[k] >= P110
            /\ Cardinality({m \in (t + 1)..N :
                               /\ m < t + TrendRange
                               /\ onTrend(t, m, "support")}) >= 4
      /\ ~actedAsResistanceBefore(FirstTouch100, P100) )
    => Support100x3

\* C3, amended: if the first observation at 100.0 (the base) passes the
\* ancient-zone filter, no support accepted before it lies within 5% of
\* 100.0, exactly three observations after the base lie within 5% of 100.0
\* and are each followed by an observation at least 10% above them, at least
\* 3 of the up to 9 observations after the base follow the declining line
\* within 3%, and no observation before the base behaved as resistance at
\* 100.0, then the result holds a support zone "100.00" with bounceCount 3
\* and confirmedResistance false.
C3_Amended ==
    ( /\ Returned
      /\ Touches100 # {}
      /\ 2 * P100 >= priceData[N]
      /\ \A b \in Range(supportBases) :
            b < FirstTouch100 => 100 * Abs(priceData[b] - P100) >= 5 * P100
      /\ Cardinality({j \in (FirstTouch100 + 1)..N :
                         /\ 100 * Abs(priceData[j] - P100) <= 5 * P100
                         /\ \E k \in (j + 1)..N :
                               100 * (priceData[k] - priceData[j])
                                   >= 10 * priceData[j]}) = 3
      /\ Cardinality({m \in (FirstTouch100 + 1)..N :
                         /\ m < FirstTouch100 + 10
                         /\ 100 * Abs(100 * priceData[m]
                                      - P100 * (100 - (m - FirstTouch100)))
                                <= 3 * P100 * (100 - (m - FirstTouch100))}) >= 3
      /\ ~\E a \in 1..(FirstTouch100 - 1) :
            /\ 100 * Abs(priceData[a] - P100) <= 5 * P100
            /\ \E b \in (a + 1)..(FirstTouch100 - 1) :
                  100 * (priceData[a] - priceData[b]) >= 10 * priceData[a] )
    => Support100x3

\* a returned support zone "100.00" with bounceCount 3 whose base is not the
\* first observation of the series
C3_Witness ==
    /\ Returned
    /\ Support100x3
    /\ Touches100 # {}
    /\ FirstTouch100 > 1
    /\ FirstTouch100 \in Range(supportBases)

StrictlyAscending(zs) == \A n \in 1..(Len(zs) - 1) : zs[n].zone < zs[n + 1].zone

C5_Threshold ==
    /\ \A s \in Range(supportZones) \cup Range(aggregatedSupportZones) :
          s.bounceCount >= 3
    /\ \A r \in Range(resistanceZones) \cup Range(aggregatedResistanceZones) :
          r.dropCount >= 3
    /\ (i > 1 /\ bounceCount < 3) => (i - 1) \notin Range(supportBases)
    /\ (i > 1 /\ dropCount < 3) => (i - 1) \notin Range(resistanceBases)
    /\ Len(supportZones) = Len(supportBases)
    /\ Len(resistanceZones) = Len(resistanceBases)
    /\ checkedSupports = {priceData[b] : b \in Range(supportBases)}
    /\ checkedResistances = {priceData[b] : b \in Range(resistanceBases)}

\* the last iteration scanned a base whose bounce counter ended at 2 and
\* emitted no support for it, after another base had emitted a zone
C5_Witness ==
    /\ i > 1
    /\ scannedSupport
    /\ bounceCount = 2
    /\ (i - 1) \notin Range(supportBases)
    /\ \E b \in EmittedBases : b < i - 1

\* the numeric value of a zone string is at least half the last price
ZoneAtLeastHalfLatest(z) == 2 * z.zone * Scale >= 100 * priceData[N]

\* C6, as stated: every emitted zone price P (the value of the zone field)
\* satisfies P >= 0.5 * priceData[last].lp.
C6_AsStated ==
    \A z \in Range(supportZones) \cup Range(resistanceZones)
             \cup Range(aggregatedSupportZones)
             \cup Range(aggregatedResistanceZones) :
        ZoneAtLeastHalfLatest(z)

\* C6, amended: no zone comes from a base observation whose price is below
\* 50% of the last price; the zone field is that price rounded to two
\* decimals, so its value P satisfies P >= 0.5 * priceData[last].lp - 0.005
\* (it can be below half the last price by the rounding).
C6_Amended ==
    /\ \A b \in EmittedBases : 2 * priceData[b] >= priceData[N]
    /\ \A n \in 1..Len(supportZones) :
          /\ n <= Len(supportBases)
          /\ 2 * Abs(100 * priceData[supportBases[n]]
                     - supportZones[n].zone * Scale) <= Scale
    /\ \A n \in 1..Len(resistanceZones) :
          /\ n <= Len(resistanceBases)
          /\ 2 * Abs(100 * priceData[resistanceBases[n]]
                     - resistanceZones[n].zone * Scale) <= Scale
    /\ \A z \in Range(supportZones) \cup Range(resistanceZones)
                \cup Range(aggregatedSupportZones)
                \cup Range(aggregatedResistanceZones) :
          2 * z.zone * Scale + Scale >= 100 * priceData[N]

\* a zone was emitted, and a base observation below half the last price was
\* passed over
C6_Witness ==
    /\ Returned
    /\ aggregatedSupportZones # <<>>
    /\ \E b \in 1..N : 2 * priceData[b] < priceData[N]

\* the zone values of the returned support zones that have a matching
\* returned resistance zone
MatchedSupportZones ==
    {s.zone : s \in {t \in Range(aggregatedSupportZones) : Matching(t.zone) # {}}}

\* C7: highlightedZones holds exactly one record for each aggregated support
\* zone S for which some aggregated resistance zone R has
\* abs(S - R) / S <= 0.05, and no record for any other price.
C7_Overlaps ==
    Returned =>
        /\ {h.zone : h \in Range(highlightedZones)} = MatchedSupportZones
        /\ Len(highlightedZones) = Cardinality(MatchedSupportZones)

\* the result holds an overlap record, and a support zone without one
C7_Witness ==
    /\ Returned
    /\ highlightedZones # <<>>
    /\ \E s \in Range(aggregatedSupportZones) : Matching(s.zone) = {}

\* base index base has earlier indices a < b with abs(lp[a] - lp[base]) /
\* lp[base] <= 0.05 and (lp[a] - lp[b]) / lp[a] >= 0.1
TouchedAndFellBefore(base) ==
    \E a \in 1..(base - 1) :
        /\ 100 * Abs(priceData[a] - priceData[base]) <= 5 * priceData[base]
        /\ \E b \in (a + 1)..(base - 1) :
              100 * (priceData[a] - priceData[b]) >= 10 * priceData[a]

\* the base indices that emitted the price string z as a support
SupportEmitters(z) ==
    {supportBases[n] : n \in {m \in 1..Len(supportZones) : supportZones[m].zone = z}}

\* C8: a returned support zone has confirmedResistance true if and only if
\* some base index that emitted its price string has earlier indices a < b
\* with a touch at a and a fall of at least 10% at b; a support emitted only
\* by the first or second observation has confirmedResistance false.
C8_ConfirmedResistance ==
    \A s \in Range(aggregatedSupportZones) :
        /\ s.confirmedResistance
              <=> \E base \in SupportEmitters(s.zone) : TouchedAndFellBefore(base)
        /\ SupportEmitters(s.zone) \subseteq {1, 2} => ~s.confirmedResistance

\* a returned support zone merged from two base indices, of which only the
\* later acted as resistance before
C8_Witness ==
    /\ Returned
    /\ \E s \in Range(aggregatedSupportZones) :
          /\ s.confirmedResistance
          /\ \E b1, b2 \in SupportEmitters(s.zone) :
                /\ b1 < b2
                /\ ~TouchedAndFellBefore(b1)
                /\ TouchedAndFellBefore(b2)

\* the prices of the bases (supportBases or resistanceBases) accepted before
\* the iteration of base index idx
AcceptedBefore(bases, idx) == {priceData[b] : b \in {c \in Range(bases) : c < idx}}

\* the base of the last iteration was passed over by the ancient-zone filter
LastWasAncient == 2 * priceData[i - 1] < priceData[N]

\* C9, as stated: a candidate base is skipped on the support path whenever an
\* already accepted support price p has abs(p - b) / b <= 0.05, so no two
\* accepted support prices p (earlier) and b (later) have
\* abs(p - b) / b <= 0.05; the same on the resistance path.
C9_AsStated ==
    /\ i > 1 =>
          /\ (\E p \in AcceptedBefore(supportBases, i - 1) :
                 100 * Abs(p - priceData[i - 1]) <= 5 * priceData[i - 1])
             => ~scannedSupport
          /\ (\E p \in AcceptedBefore(resistanceBases, i - 1) :
                 100 * Abs(p - priceData[i - 1]) <= 5 * priceData[i - 1])
             => ~scannedResistance
    /\ \A bases \in {supportBases, resistanceBases} :
          \A m, n \in 1..Len(bases) :
              m < n => 100 * Abs(priceData[bases[m]] - priceData[bases[n]])
                           > 5 * priceData[bases[n]]

\* C9, amended: a candidate base that passes the ancient-zone filter is
\* skipped on the support path exactly when an already accepted support price
\* p has abs(p - b) / b < 0.05 (strictly: a price exactly 5% away does not
\* make it skip), so no two accepted support prices p (earlier) and b (later)
\* have abs(p - b) / b < 0.05; the same on the resistance path.
C9_Amended ==
    /\ (i > 1 /\ ~LastWasAncient) =>
          /\ ~scannedSupport
                <=> \E p \in AcceptedBefore(supportBases, i - 1) :
                       100 * Abs(p - priceData[i - 1]) < 5 * priceData[i - 1]
          /\ ~scannedResistance
                <=> \E p \in AcceptedBefore(resistanceBases, i - 1) :
                       100 * Abs(p - priceData[i - 1]) < 5 * priceData[i - 1]
    /\ \A bases \in {supportBases, resistanceBases} :
          \A m, n \in 1..Len(bases) :
              m < n => 100 * Abs(priceData[bases[m]] - priceData[bases[n]])
                           >= 5 * priceData[bases[n]]

\* the last iteration accepted a resistance whose price is exactly 5% away
\* from a resistance accepted before
C9_Witness ==
    /\ i > 1
    /\ resistanceBases # <<>>
    /\ resistanceBases[Len(resistanceBases)] = i - 1
    /\ \E p \in AcceptedBefore(resistanceBases, i - 1) :
          100 * Abs(p - priceData[i - 1]) = 5 * priceData[i - 1]

\* the indices after base that touch its price and are followed by a rise
\* of at least 10%
BouncedTouches(base) ==
    {j \in (base + 1)..N :
        /\ 100 * Abs(priceData[j] - priceData[base]) <= 5 * priceData[base]
        /\ \E k \in (j + 1)..N :
              100 * (priceData[k] - priceData[j]) >= 10 * priceData[j]}

\* the indices after base that touch its price and are followed by a fall
\* of at least 10%
DroppedTouches(base) ==
    {j \in (base + 1)..N :
        /\ 100 * Abs(priceData[j] - priceData[base]) <= 5 * priceData[base]
        /\ \E k \in (j + 1)..N :
              100 * (priceData[j] - priceData[k]) >= 10 * priceData[j]}

\* C10: for a base index that is not skipped, the bounce counter counts each
\* touch at most once: it is the number of touches after the base that some
\* later observation exceeds by at least 10% if trendLineMatch(base, 10,
\* support) is true, and 0 otherwise; it never exceeds the number of
\* observations after the base.  The same for the drop counter.
C10_Counter ==
    i > 1 =>
        /\ scannedSupport =>
              /\ bounceCount =
                    IF trendLineMatch(i - 1, 10, "support")
                    THEN Cardinality(BouncedTouches(i - 1)) ELSE 0
              /\ bounceCount <= N - (i - 1)
        /\ scannedResistance =>
              /\ dropCount =
                    IF trendLineMatch(i - 1, 10, "resistance")
                    THEN Cardinality(DroppedTouches(i - 1)) ELSE 0
              /\ dropCount <= N - (i - 1)

\* the last iteration counted a touch that two later observations exceed by
\* at least 10%
C10_Witness ==
    /\ i > 1
    /\ scannedSupport
    /\ bounceCount >= 1
    /\ \E j \in BouncedTouches(i - 1) :
          Cardinality({k \in (j + 1)..N :
                          100 * (priceData[k] - priceData[j])
                              >= 10 * priceData[j]}) >= 2

====
